---- MODULE Spec2Model ----
(***************************************************************************)
(* Model of package keys (src/keys/keys.go): entropy intake (dice and      *)
(* coin-flip sequences), the private-key range check, WIF encoding and     *)
(* decoding, and public-key serialisation.  Hashed and Mnemonic, which     *)
(* only hand a buffer to a library, are left out.                          *)
(*                                                                         *)
(* Representation.  A Go string is a sequence of one-character strings, a  *)
(* []byte is a sequence over 0..255.  A math/big nat is its little-endian  *)
(* sequence of words, normalised (no most-significant zero word); a Word   *)
(* is 16 bits wide here instead of the machine's 32 or 64, which no        *)
(* operation of the package can observe.  A big.Int is [neg, abs].  nil is *)
(* Nil.                                                                    *)
(***************************************************************************)
EXTENDS Integers, Sequences, FiniteSets

\* nil ([]byte or *big.Int): no byte sequence holds a negative element
Nil == << -1 >>

(***************************************************************************)
(* Program constants.                                                      *)
(***************************************************************************)
DiceSeqRequiredLength == 99

CoinflipSeqRequiredLength == 256

\* The hex literal of init(), two characters per byte, most significant first.
MaxValueBytes ==
    << 255, 255, 255, 255, 255, 255, 255, 255,
       255, 255, 255, 255, 255, 255, 255, 254,
       186, 174, 220, 230, 175,  72, 160,  59,
       191, 210,  94, 140, 208,  54,  65,  64 >>

(***************************************************************************)
(* math/big: nat                                                           *)
(***************************************************************************)
Reverse(s) == [i \in 1..Len(s) |-> s[Len(s) + 1 - i]]

RECURSIVE norm(_)
norm(z) ==
    IF Len(z) > 0 /\ z[Len(z)] = 0 THEN norm(SubSeq(z, 1, Len(z) - 1)) ELSE z

\* x*y + c from word i on, the carry c propagated upwards (y below 2^15)
RECURSIVE mulAddVWW(_, _, _, _)
mulAddVWW(x, y, c, i) ==
    IF i > Len(x)
    THEN IF c = 0 THEN <<>> ELSE <<c % 65536>> \o mulAddVWW(x, y, c \div 65536, i)
    ELSE LET t == x[i] * y + c
         IN  <<t % 65536>> \o mulAddVWW(x, y, t \div 65536, i + 1)

\* nat.setWord: the limbs of the word r
setWord(r) == mulAddVWW(<<>>, 0, r, 1)

\* nat.mulAddWW: x*y + r
mulAddWW(x, y, r) ==
    IF Len(x) = 0 \/ y = 0
    THEN setWord(r)
    ELSE norm(mulAddVWW(x, y, r, 1))

\* nat.divW from word i downwards with running remainder r: the quotient's
\* words i..1 (most significant first) and the remainder (y below 2^15)
RECURSIVE divWVW(_, _, _, _)
divWVW(x, y, r, i) ==
    IF i = 0
    THEN [q |-> <<>>, r |-> r]
    ELSE LET t    == r * 65536 + x[i]
             rest == divWVW(x, y, t % y, i - 1)
         IN  [q |-> <<t \div y>> \o rest.q, r |-> rest.r]

\* nat.divW: quotient and remainder of x by the word y
divW(x, y) ==
    LET d == divWVW(x, y, 0, Len(x))
    IN  [q |-> norm(Reverse(d.q)), r |-> d.r]

\* nat.cmp: -1, 0, +1
RECURSIVE cmpFrom(_, _, _)
cmpFrom(x, y, i) ==
    IF i = 0 THEN 0
    ELSE IF x[i] < y[i] THEN -1
    ELSE IF x[i] > y[i] THEN 1
    ELSE cmpFrom(x, y, i - 1)

natCmp(x, y) ==
    IF Len(x) < Len(y) THEN -1
    ELSE IF Len(x) > Len(y) THEN 1
    ELSE cmpFrom(x, y, Len(x))

\* nat.setBytes: big-endian bytes packed into words from the last byte on
natSetBytes(buf) ==
    LET n == Len(buf)
    IN  norm([j \in 1..((n + 1) \div 2) |->
                 buf[n - 2 * (j - 1)]
                     + (IF n - 2 * (j - 1) > 1 THEN 256 * buf[n - 2 * (j - 1) - 1] ELSE 0)])

\* The number of leading elements of s equal to e
RECURSIVE leading(_, _, _)
leading(s, e, i) ==
    IF i > Len(s) \/ s[i] # e THEN i - 1 ELSE leading(s, e, i + 1)

\* nat.bytes: the words' bytes, most significant first, from the first
\* non-zero byte on
natBytes(z) ==
    LET m   == Len(z)
        all == [i \in 1..(2 * m) |->
                   IF i % 2 = 1 THEN z[m - (i - 1) \div 2] \div 256
                                ELSE z[m - (i - 1) \div 2] % 256]
    IN  SubSeq(all, leading(all, 0, 1) + 1, 2 * m)

(***************************************************************************)
(* math/big: Int                                                           *)
(***************************************************************************)
\* Int.SetBytes: an unsigned big-endian integer
SetBytes(buf) == [neg |-> FALSE, abs |-> natSetBytes(buf)]

\* Bytes as it would be if it filled a fixed 32-byte buffer (Int.FillBytes)
BytesFilled(x) ==
    LET b == natBytes(x.abs)
    IN  IF Len(b) >= 32 THEN b ELSE [i \in 1..(32 - Len(b)) |-> 0] \o b

\* Int.Bytes: the absolute value, big-endian
Bytes(x) == natBytes(x.abs)

\* Int.Cmp
Cmp(x, y) ==
    IF x.neg = y.neg
    THEN IF x.neg THEN 0 - natCmp(x.abs, y.abs) ELSE natCmp(x.abs, y.abs)
    ELSE IF x.neg THEN -1 ELSE 1

\* Int.Bit(0)
Bit0(x) == IF Len(x.abs) = 0 THEN 0 ELSE x.abs[1] % 2

\* The digit characters math/big accepts, by value 0..35
LowerDigits ==
    << "0", "1", "2", "3", "4", "5", "6", "7", "8", "9",
       "a", "b", "c", "d", "e", "f", "g", "h", "i", "j", "k", "l", "m",
       "n", "o", "p", "q", "r", "s", "t", "u", "v", "w", "x", "y", "z" >>

UpperDigits ==
    << "0", "1", "2", "3", "4", "5", "6", "7", "8", "9",
       "A", "B", "C", "D", "E", "F", "G", "H", "I", "J", "K", "L", "M",
       "N", "O", "P", "Q", "R", "S", "T", "U", "V", "W", "X", "Y", "Z" >>

\* The value of a digit character; 36 (no digit of any base) for any other
digitTable ==
    [ch \in { LowerDigits[v] : v \in 1..36 } \cup { UpperDigits[v] : v \in 1..36 } |->
        (CHOOSE v \in 1..36 : LowerDigits[v] = ch \/ UpperDigits[v] = ch) - 1]

digitVal(ch) == IF ch \in DOMAIN digitTable THEN digitTable[ch] ELSE 36

RECURSIVE pow(_, _)
pow(b, n) == IF n = 0 THEN 1 ELSE b * pow(b, n - 1)

\* maxPow(b): the largest n with b^n within what nat.scan's digit accumulator
\* holds (15 bits here, so that no product of two words leaves the integers)
RECURSIVE maxPowFrom(_, _)
maxPowFrom(b, n) == IF pow(b, n + 1) >= 32768 THEN n ELSE maxPowFrom(b, n + 1)

maxPow(b) == maxPowFrom(b, 1)

\* The word the k digits s[i..i+k-1] accumulate to: di = di*b1 + d1
RECURSIVE scanWord(_, _, _, _)
scanWord(s, base, i, k) ==
    IF k = 0 THEN 0
    ELSE scanWord(s, base, i, k - 1) * base + digitVal(s[i + k - 1])

\* nat.scan over the digits s[i..]: every n = maxPow(base) digits, and at the
\* end for the i < n digits left, z = z*base^i + di
RECURSIVE scanDigits(_, _, _, _)
scanDigits(s, base, z, i) ==
    IF i > Len(s) THEN z
    ELSE LET n  == maxPow(base)
             k  == IF Len(s) - i + 1 < n THEN Len(s) - i + 1 ELSE n
             zz == mulAddWW(z, pow(base, k), scanWord(s, base, i, k))
         IN  IF Len(zz) >= 0 THEN scanDigits(s, base, zz, i + k) ELSE zz

\* Int.SetString(s, base) for a base in 2..36: an optional sign, then at least
\* one digit, and nothing but digits of the base up to the end of the string
SetString(s, base) ==
    LET signed == Len(s) > 0 /\ s[1] \in {"+", "-"}
        first  == IF signed THEN 2 ELSE 1
        valid  == /\ first <= Len(s)
                  /\ \A i \in first..Len(s) : digitVal(s[i]) < base
        abs    == scanDigits(s, base, <<>>, first)
    IN  IF ~valid
        THEN [ok |-> FALSE, val |-> Nil]
        ELSE [ok  |-> TRUE,
              val |-> [neg |-> Len(abs) > 0 /\ s[1] = "-", abs |-> abs]]

(***************************************************************************)
(* strconv, on the arguments diceKey passes                                *)
(***************************************************************************)
DecimalDigits == << "0", "1", "2", "3", "4", "5", "6", "7", "8", "9" >>

\* strconv.ParseInt(string(c), 10, 8) for one byte c: a lone sign, a letter,
\* an underscore or any other non-digit is a syntax error
ParseInt(c) ==
    IF \E v \in 1..10 : DecimalDigits[v] = c
    THEN [err |-> FALSE, n |-> (CHOOSE v \in 1..10 : DecimalDigits[v] = c) - 1]
    ELSE [err |-> TRUE, n |-> 0]

\* strconv.Itoa(n) for n in -1..8
Itoa(n) == IF n < 0 THEN <<"-", DecimalDigits[1 - n]>> ELSE <<DecimalDigits[n + 1]>>

(***************************************************************************)
(* The key range                                                           *)
(***************************************************************************)
maxValueForKey == SetBytes(MaxValueBytes)

minValueForKey == SetBytes(<<1>>)

\* isValidKey with the lower bound exclusive
isValidKeyAboveMin(keyNum) ==
    Cmp(keyNum, minValueForKey) > 0 /\ Cmp(keyNum, maxValueForKey) <= 0

\* isValidKey with the upper bound exclusive
isValidKeyBelowMax(keyNum) ==
    Cmp(keyNum, minValueForKey) >= 0 /\ Cmp(keyNum, maxValueForKey) < 0

isValidKey(keyNum) ==
    LET notTooSmall == Cmp(keyNum, minValueForKey) >= 0
        notTooBig   == Cmp(keyNum, maxValueForKey) <= 0
    IN  notTooSmall /\ notTooBig

(***************************************************************************)
(* Entropy intake.  A result is [key, err]; err is "nil" or the kind of    *)
(* the error returned: "length" (wrong length), "parse" (ParseInt failed   *)
(* or SetString returned false), "range" (isValidKey returned false).      *)
(***************************************************************************)
coinflipsKey(sequence) ==
    LET r == SetString(sequence, 2)
    IN  IF ~r.ok THEN [key |-> Nil, err |-> "parse"]
        ELSE IF ~isValidKey(r.val) THEN [key |-> Nil, err |-> "range"]
        ELSE [key |-> Bytes(r.val), err |-> "nil"]

\* Concatenation of the strings ss[lo..hi]
RECURSIVE concat(_, _, _)
concat(ss, lo, hi) ==
    IF lo > hi THEN <<>>
    ELSE IF lo = hi THEN ss[lo]
    ELSE LET mid == (lo + hi) \div 2
         IN  concat(ss, lo, mid) \o concat(ss, mid + 1, hi)

\* The loop of diceKey: it returns at the first character ParseInt rejects,
\* and otherwise appends Itoa(n - 1) for every character in order
diceLoop(sequence) ==
    IF \E i \in 1..Len(sequence) : ParseInt(sequence[i]).err
    THEN [err |-> TRUE, basesix |-> <<>>]
    ELSE [err     |-> FALSE,
          basesix |-> concat([i \in 1..Len(sequence) |->
                                 Itoa(ParseInt(sequence[i]).n - 1)],
                             1, Len(sequence))]

diceKey(sequence) ==
    LET l == diceLoop(sequence)
        r == SetString(l.basesix, 6)
    IN  IF l.err THEN [key |-> Nil, err |-> "parse"]
        ELSE IF ~r.ok THEN [key |-> Nil, err |-> "parse"]
        ELSE IF ~isValidKey(r.val) THEN [key |-> Nil, err |-> "range"]
        ELSE [key |-> Bytes(r.val), err |-> "nil"]

FromDiceSequence(sequence) ==
    IF Len(sequence) # DiceSeqRequiredLength
    THEN [key |-> Nil, err |-> "length"]
    ELSE LET r == diceKey(sequence)
         IN  IF r.err # "nil" THEN [key |-> Nil, err |-> r.err] ELSE r

FromCoinflipSequence(sequence) ==
    IF Len(sequence) # CoinflipSeqRequiredLength
    THEN [key |-> Nil, err |-> "length"]
    ELSE LET r == coinflipsKey(sequence)
         IN  IF r.err # "nil" THEN [key |-> Nil, err |-> r.err] ELSE r

(***************************************************************************)
(* base58 (btcutil): a buffer is read as one big-endian number, written in *)
(* radix 58, with one "1" for every leading zero byte                      *)
(***************************************************************************)
b58Alphabet ==
    << "1", "2", "3", "4", "5", "6", "7", "8", "9",
       "A", "B", "C", "D", "E", "F", "G", "H", "J", "K", "L", "M", "N",
       "P", "Q", "R", "S", "T", "U", "V", "W", "X", "Y", "Z",
       "a", "b", "c", "d", "e", "f", "g", "h", "i", "j", "k", "m",
       "n", "o", "p", "q", "r", "s", "t", "u", "v", "w", "x", "y", "z" >>

\* The table b58: a character's digit, 255 for a character not in the alphabet
b58Table ==
    [ch \in { b58Alphabet[v] : v \in 1..58 } |->
        (CHOOSE v \in 1..58 : b58Alphabet[v] = ch) - 1]

b58(ch) == IF ch \in DOMAIN b58Table THEN b58Table[ch] ELSE 255

\* Encode's division loop: x.DivMod(x, 58, mod) while x > 0, the digits in
\* the order they are appended (least significant first)
RECURSIVE encodeLoop(_)
encodeLoop(x) ==
    IF Len(x) = 0 THEN <<>>
    ELSE LET d == divW(x, 58)
         IN  <<b58Alphabet[d.r + 1]>> \o encodeLoop(d.q)

\* base58.Encode
Encode(b) ==
    LET answer == encodeLoop(natSetBytes(b))
                      \o [i \in 1..leading(b, 0, 1) |-> b58Alphabet[1]]
    IN  Reverse(answer)

\* Decode's accumulation of the digits of b[i..] into the number z
RECURSIVE decodeLoop(_, _, _)
decodeLoop(b, z, i) ==
    IF i > Len(b) THEN z
    ELSE LET zz == mulAddWW(z, 58, b58(b[i]))
         IN  IF Len(zz) >= 0 THEN decodeLoop(b, zz, i + 1) ELSE zz

\* base58.Decode: the empty buffer for a string with a character outside the
\* alphabet; else one zero byte per leading "1", then the number's bytes
Decode(b) ==
    IF \E i \in 1..Len(b) : b58(b[i]) = 255
    THEN <<>>
    ELSE [i \in 1..leading(b, b58Alphabet[1], 1) |-> 0]
             \o natBytes(decodeLoop(b, <<>>, 1))

(***************************************************************************)
(* crypto/sha256.  The package uses a digest only as a function from a     *)
(* byte buffer to 32 bytes, compared byte for byte; Sum256 is here a       *)
(* position-weighted sum of the input spread over 32 bytes, in place of    *)
(* SHA-256's rounds.                                                       *)
(***************************************************************************)
RECURSIVE weigh(_, _)
weigh(b, i) ==
    IF i = 0 THEN 40503
    ELSE (weigh(b, i - 1) * 31 + (b[i] + 1) * (2 * i + 1)) % 65521

Sum256(b) ==
    LET w == weigh(b, Len(b))
    IN  [i \in 1..32 |-> ((w + 7 * i) * (2 * i + 1) + (w \div 256) + Len(b)) % 256]

(***************************************************************************)
(* WIF                                                                     *)
(***************************************************************************)
\* The first four bytes of the double digest of the buffer
checksumOf(buf) == SubSeq(Sum256(Sum256(buf)), 1, 4)

ToWIF(privKey, compressed) ==
    LET first  == IF compressed THEN <<128>> \o privKey \o <<1>>
                                ELSE <<128>> \o privKey
        fourth == first \o checksumOf(first)
    IN  Encode(fourth)

\* What PrivateFromWIF returns once the version byte and the checksum passed
wifPayload(decoded) ==
    LET n      == Len(decoded)
        decKey == SubSeq(decoded, 2, n - 4)
    IN  IF n - 4 < 1
        THEN [key |-> Nil, compressed |-> FALSE, err |-> "panic"]   \* decoded[1:n-4]
        ELSE IF Len(decKey) = 33 /\ decKey[Len(decKey)] = 1
        THEN [key |-> SubSeq(decKey, 1, 32), compressed |-> TRUE, err |-> "nil"]
        ELSE [key |-> decKey, compressed |-> FALSE, err |-> "nil"]

\* PrivateFromWIF comparing three of the four checksum bytes
PrivateFromWIFThreeBytes(keyString) ==
    LET decoded == Decode(keyString)
        n       == Len(decoded)
    IN  IF n = 0
        THEN [key |-> Nil, compressed |-> FALSE, err |-> "panic"]
        ELSE IF decoded[1] # 128
        THEN [key |-> Nil, compressed |-> FALSE, err |-> "prefix"]
        ELSE IF n < 4
        THEN [key |-> Nil, compressed |-> FALSE, err |-> "panic"]
        ELSE IF SubSeq(checksumOf(SubSeq(decoded, 1, n - 4)), 1, 3)
                    # SubSeq(decoded, n - 3, n - 1)
        THEN [key |-> Nil, compressed |-> FALSE, err |-> "checksum"]
        ELSE wifPayload(decoded)

\* PrivateFromWIF checking the checksum before the version byte
PrivateFromWIFChecksumFirst(keyString) ==
    LET decoded == Decode(keyString)
        n       == Len(decoded)
    IN  IF n < 4
        THEN [key |-> Nil, compressed |-> FALSE, err |-> "panic"]
        ELSE IF checksumOf(SubSeq(decoded, 1, n - 4)) # SubSeq(decoded, n - 3, n)
        THEN [key |-> Nil, compressed |-> FALSE, err |-> "checksum"]
        ELSE IF decoded[1] # 128
        THEN [key |-> Nil, compressed |-> FALSE, err |-> "prefix"]
        ELSE wifPayload(decoded)

\* A result is [key, compressed, err]; err is "nil", "prefix" (not a mainnet
\* key), "checksum", or "panic" for the run-time panic of an index or a slice
\* expression out of range, which ends the process instead of returning.
PrivateFromWIF(keyString) ==
    LET decoded == Decode(keyString)
        n       == Len(decoded)
    IN  IF n = 0
        THEN [key |-> Nil, compressed |-> FALSE, err |-> "panic"]   \* decoded[0]
        ELSE IF decoded[1] # 128
        THEN [key |-> Nil, compressed |-> FALSE, err |-> "prefix"]
        ELSE IF n < 4
        THEN [key |-> Nil, compressed |-> FALSE, err |-> "panic"]   \* decoded[n-4:]
        ELSE IF checksumOf(SubSeq(decoded, 1, n - 4)) # SubSeq(decoded, n - 3, n)
        THEN [key |-> Nil, compressed |-> FALSE, err |-> "checksum"]
        ELSE wifPayload(decoded)

(***************************************************************************)
(* Public keys                                                             *)
(***************************************************************************)
\* btcec.S256().ScalarBaseMult: the affine coordinates of k*G on secp256k1,
\* for the scalars the model derives keys for (big-endian, 32 bytes each);
\* leading zero bytes of the scalar do not count
CurvePoints ==
    << [k |-> <<1>>,
        X |-> << 121, 190, 102, 126, 249, 220, 187, 172, 85, 160, 98, 149, 206, 135, 11, 7,
                 2, 155, 252, 219, 45, 206, 40, 217, 89, 242, 129, 91, 22, 248, 23, 152 >>,
        Y |-> << 72, 58, 218, 119, 38, 163, 196, 101, 93, 164, 251, 252, 14, 17, 8, 168,
                 253, 23, 180, 72, 166, 133, 84, 25, 156, 71, 208, 143, 251, 16, 212, 184 >>],
       [k |-> <<2>>,
        X |-> << 198, 4, 127, 148, 65, 237, 125, 109, 48, 69, 64, 110, 149, 192, 124, 216,
                 92, 119, 142, 75, 140, 239, 60, 167, 171, 172, 9, 185, 92, 112, 158, 229 >>,
        Y |-> << 26, 225, 104, 254, 166, 61, 195, 57, 163, 197, 132, 25, 70, 108, 234, 238,
                 247, 246, 50, 101, 50, 102, 208, 225, 35, 100, 49, 169, 80, 207, 229, 42 >>],
       [k |-> <<3>>,
        X |-> << 249, 48, 138, 1, 146, 88, 195, 16, 73, 52, 79, 133, 248, 157, 82, 41,
                 181, 49, 200, 69, 131, 111, 153, 176, 134, 1, 241, 19, 188, 224, 54, 249 >>,
        Y |-> << 56, 143, 123, 15, 99, 45, 232, 20, 15, 227, 55, 230, 42, 55, 243, 86,
                 101, 0, 169, 153, 52, 194, 35, 27, 108, 185, 253, 117, 132, 184, 230, 114 >>],
       [k |-> <<130>>,
        X |-> << 157, 218, 148, 64, 67, 55, 219, 20, 116, 230, 127, 29, 112, 82, 243, 152,
                 160, 231, 14, 210, 5, 197, 233, 77, 110, 115, 27, 6, 198, 245, 28, 216 >>,
        Y |-> << 0, 101, 165, 129, 40, 247, 85, 175, 174, 111, 174, 56, 237, 109, 46, 196,
                 48, 106, 10, 17, 253, 210, 43, 13, 125, 95, 164, 146, 41, 211, 22, 105 >>],
       [k |-> <<153>>,
        X |-> << 0, 227, 174, 25, 116, 86, 108, 160, 108, 197, 22, 212, 126, 15, 177, 101,
                 166, 116, 163, 218, 188, 252, 161, 94, 114, 47, 14, 52, 80, 244, 88, 137 >>,
        Y |-> << 42, 234, 190, 126, 69, 49, 81, 1, 22, 33, 127, 7, 191, 77, 7, 48,
                 13, 233, 126, 72, 116, 248, 31, 83, 52, 32, 167, 46, 235, 11, 214, 164 >>] >>

\* The coordinates come back as big.Int values
ScalarBaseMult(k) ==
    LET v == SubSeq(k, leading(k, 0, 1) + 1, Len(k))
        p == CurvePoints[CHOOSE i \in 1..Len(CurvePoints) : CurvePoints[i].k = v]
    IN  [X |-> SetBytes(p.X), Y |-> SetBytes(p.Y)]

derivatePublicKey(key) ==
    LET bigNumberKey == SetBytes(key)
    IN  ScalarBaseMult(Bytes(bigNumberKey))

isEven(num) == Bit0(num) # 1

toCompressedBytes(pubK) ==
    LET byteX == Bytes(pubK.X)
    IN  IF isEven(pubK.Y) THEN <<2>> \o byteX ELSE <<3>> \o byteX

toUncompressedBytes(pubK) ==
    LET byteX == Bytes(pubK.X)
        byteY == Bytes(pubK.Y)
    IN  <<4>> \o byteX \o byteY

Public(privateKey, compressed) ==
    LET publicKey == derivatePublicKey(privateKey)
    IN  IF compressed THEN toCompressedBytes(publicKey)
                      ELSE toUncompressedBytes(publicKey)

(***************************************************************************)
(* The callers' inputs                                                     *)
(***************************************************************************)
\* How many positions at each end of a sequence may hold any character
MaxEdge == 1

\* How far a sequence's length may be from the required one
MaxSlack == 1

\* The characters a sequence may hold at those positions
Chars == { "0", "1", "2", "3", "4", "5", "6", "7", "8", "9", "+", "-", "a", "_" }

Fill(n, c) == [i \in 1..n |-> c]

Lengths(required) == (required - MaxSlack)..(required + MaxSlack)

\* The first and last MaxEdge positions of a sequence of n, and its middle
Positions(n) ==
    { i \in 1..n : i <= MaxEdge \/ i > n - MaxEdge \/ i = (n + 1) \div 2 }

\* Every sequence that differs from a base in at most one of those positions
Patched(bases) ==
    UNION { { [b EXCEPT ![i] = c] : i \in Positions(Len(b)), c \in Chars } : b \in bases }

\* Dice sequences: all ones (the number 0), all threes, all sixes (the
\* largest number), patched
DiceInputs ==
    Patched({ Fill(n, f) : n \in Lengths(DiceSeqRequiredLength), f \in {"1", "3", "6"} })

\* The binary digits of maxValueForKey, most significant first
MaxValueBits ==
    [i \in 1..(8 * Len(MaxValueBytes)) |->
        IF (MaxValueBytes[((i - 1) \div 8) + 1] \div pow(2, 7 - ((i - 1) % 8))) % 2 = 1
        THEN "1" ELSE "0"]

\* Coin-flip sequences: all zeros, all ones, and the digits of maxValueForKey
\* (cut or extended with zeros to the length), patched
CoinflipInputs ==
    Patched({ Fill(n, f) : n \in Lengths(CoinflipSeqRequiredLength), f \in {"0", "1"} }
            \cup { [i \in 1..n |-> IF i <= Len(MaxValueBits) THEN MaxValueBits[i] ELSE "0"] :
                       n \in Lengths(CoinflipSeqRequiredLength) })

\* A buffer of n bytes, zero but for its first byte hi and its last byte lo
KeyBuf(n, hi, lo) == [i \in 1..n |-> IF i = n THEN lo ELSE IF i = 1 THEN hi ELSE 0]

\* The curve order, maxValueForKey + 1
OrderBytes == [MaxValueBytes EXCEPT ![32] = 65]

\* Private keys handed to ToWIF: the one-byte keys the entropy functions
\* return for small numbers, 31- and 32-byte keys, the largest key, and the
\* buffers no validator would pass (zero, the curve order, 33 bytes)
KeyInputs ==
    { <<1>>, <<2>>, KeyBuf(31, 7, 1), KeyBuf(31, 255, 9),
      KeyBuf(32, 0, 1), KeyBuf(32, 200, 1), KeyBuf(32, 1, 0), MaxValueBytes,
      KeyBuf(32, 0, 0), OrderBytes, KeyBuf(33, 1, 1) }

\* Version bytes and payloads of hand-made buffers
ForgedVersions == { 0, 127, 128, 129, 239 }

ForgedPayloads == { <<>>, <<5>>, KeyBuf(32, 0, 0), KeyBuf(32, 3, 1), KeyBuf(33, 3, 1), KeyBuf(34, 3, 1) }

\* Strings typed by hand: empty, outside the alphabet, and encodings of
\* buffers shorter than a version byte and a checksum
RawStrings ==
    { <<>>, <<"0">>, <<"1">>, <<"2">>, <<"3", "D">>, <<"K", "w", "l">>,
      Encode(<<128, 1>>), Encode(<<128, 1, 2>>), Encode(<<128, 1, 2, 3>>),
      Encode(<<129, 1, 2>>), Encode(<<0, 0>>) }

\* Scalars whose curve point the model knows, some with leading zero bytes
ScalarInputs ==
    { CurvePoints[i].k : i \in 1..Len(CurvePoints) }
        \cup { KeyBuf(32, 0, CurvePoints[i].k[1]) : i \in 1..Len(CurvePoints) }

\* x with bit b of its byte i flipped
FlipBit(x, i, b) ==
    [x EXCEPT ![i] = IF (x[i] \div pow(2, b)) % 2 = 1 THEN x[i] - pow(2, b)
                                                        ELSE x[i] + pow(2, b)]

(***************************************************************************)
(* State: the last call (op), its arguments and what it returned.          *)
(***************************************************************************)
VARIABLES
    op,          \* "none", or the function called or input step taken last
    sequence,    \* the dice or coin-flip sequence passed
    privKey,     \* the key passed to ToWIF or Public
    flag,        \* the compressed argument passed to ToWIF or Public
    keyString,   \* the WIF string: returned by ToWIF, passed to PrivateFromWIF
    source,      \* where keyString comes from: "ToWIF", "Corrupt", "Forge", "Raw"
    key,         \* the key returned
    compressed,  \* the compressed result of PrivateFromWIF
    err,         \* the error returned ("nil" for none), "panic" for a panic
    pubKey       \* the buffer returned by Public

vars == <<op, sequence, privKey, flag, keyString, source, key, compressed, err, pubKey>>

Init ==
    /\ op = "none"
    /\ sequence = <<>>
    /\ privKey = <<>>
    /\ flag = FALSE
    /\ keyString = <<>>
    /\ source = "none"
    /\ key = Nil
    /\ compressed = FALSE
    /\ err = "nil"
    /\ pubKey = <<>>

CallFromDiceSequence ==
    /\ op = "none"
    /\ \E s \in DiceInputs :
         LET r == FromDiceSequence(s)
         IN  /\ op' = "FromDiceSequence"
             /\ sequence' = s
             /\ key' = r.key
             /\ err' = r.err
    /\ UNCHANGED <<privKey, flag, keyString, source, compressed, pubKey>>

CallFromCoinflipSequence ==
    /\ op = "none"
    /\ \E s \in CoinflipInputs :
         LET r == FromCoinflipSequence(s)
         IN  /\ op' = "FromCoinflipSequence"
             /\ sequence' = s
             /\ key' = r.key
             /\ err' = r.err
    /\ UNCHANGED <<privKey, flag, keyString, source, compressed, pubKey>>

CallToWIF ==
    /\ op = "none"
    /\ \E k \in KeyInputs, c \in BOOLEAN :
         /\ op' = "ToWIF"
         /\ privKey' = k
         /\ flag' = c
         /\ keyString' = ToWIF(k, c)
         /\ source' = "ToWIF"
    /\ UNCHANGED <<sequence, key, compressed, err, pubKey>>

\* One bit of one of the four checksum bytes of a string ToWIF returned is
\* changed before the string is read back
Corrupt ==
    /\ op = "ToWIF"
    /\ \E i \in 0..3, b \in 0..7 :
         LET decoded == Decode(keyString)
         IN  keyString' = Encode(FlipBit(decoded, Len(decoded) - i, b))
    /\ op' = "Corrupt"
    /\ source' = "Corrupt"
    /\ UNCHANGED <<sequence, privKey, flag, key, compressed, err, pubKey>>

\* A string made by hand from a version byte, a payload and either the
\* payload's checksum or another one
Forge ==
    /\ op = "none"
    /\ \E v \in ForgedVersions, p \in ForgedPayloads, good \in BOOLEAN :
         LET body == <<v>> \o p
             sum  == checksumOf(body)
         IN  keyString' = Encode(body \o (IF good THEN sum ELSE FlipBit(sum, 1, 0)))
    /\ op' = "Forge"
    /\ source' = "Forge"
    /\ UNCHANGED <<sequence, privKey, flag, key, compressed, err, pubKey>>

Type ==
    /\ op = "none"
    /\ \E s \in RawStrings : keyString' = s
    /\ op' = "Type"
    /\ source' = "Raw"
    /\ UNCHANGED <<sequence, privKey, flag, key, compressed, err, pubKey>>

CallPrivateFromWIF ==
    /\ op \in {"ToWIF", "Corrupt", "Forge", "Type"}
    /\ LET r == PrivateFromWIF(keyString)
       IN  /\ key' = r.key
           /\ compressed' = r.compressed
           /\ err' = r.err
    /\ op' = "PrivateFromWIF"
    /\ UNCHANGED <<sequence, privKey, flag, keyString, source, pubKey>>

CallPublic ==
    /\ op = "none"
    /\ \E k \in ScalarInputs, c \in BOOLEAN :
         /\ privKey' = k
         /\ flag' = c
         /\ pubKey' = Public(k, c)
    /\ op' = "Public"
    /\ UNCHANGED <<sequence, keyString, source, key, compressed, err>>

Next ==
    \/ CallFromDiceSequence
    \/ CallFromCoinflipSequence
    \/ CallToWIF
    \/ Corrupt
    \/ Forge
    \/ Type
    \/ CallPrivateFromWIF
    \/ CallPublic

Spec == Init /\ [][Next]_vars

(***************************************************************************)
(* Properties.  Ranges and orders are decided on the byte and digit        *)
(* sequences themselves (dictionary order of equally long sequences), not  *)
(* by Cmp; a returned buffer is read back by division, not by nat.scan.    *)
(***************************************************************************)
DiceAlphabet == { "1", "2", "3", "4", "5", "6" }

CoinAlphabet == { "0", "1" }

Over(s, alphabet) == \A i \in 1..Len(s) : s[i] \in alphabet

\* s is above t in dictionary order (sequences of the same length)
Above(s, t) ==
    \E i \in 1..Len(s) : /\ s[i] > t[i]
                         /\ \A j \in 1..(i - 1) : s[j] = t[j]

\* The big-endian value of buf is in 1..maxValueForKey
InKeyRange(buf) ==
    LET v == SubSeq(buf, leading(buf, 0, 1) + 1, Len(buf))
    IN  /\ Len(v) >= 1
        /\ \/ Len(v) < Len(MaxValueBytes)
           \/ Len(v) = Len(MaxValueBytes) /\ ~Above(v, MaxValueBytes)

\* The bits of a coin-flip sequence, as numbers
BitValues(s) == [i \in 1..Len(s) |-> IF s[i] = "1" THEN 1 ELSE 0]

DiceCall == op = "FromDiceSequence" /\ Len(sequence) = DiceSeqRequiredLength

CoinCall == op = "FromCoinflipSequence" /\ Len(sequence) = CoinflipSeqRequiredLength

\* The k digits of the word w in a radix, most significant first
RECURSIVE wordDigits(_, _, _)
wordDigits(w, radix, k) ==
    IF k = 0 THEN <<>> ELSE wordDigits(w \div radix, radix, k - 1) \o <<w % radix>>

\* The last n digits of the number x in a radix, most significant first
RECURSIVE radixDigits(_, _, _)
radixDigits(x, radix, n) ==
    IF n = 0 THEN <<>>
    ELSE LET k == IF n < maxPow(radix) THEN n ELSE maxPow(radix)
             d == divW(x, pow(radix, k))
         IN  IF Len(d.q) >= 0
             THEN radixDigits(d.q, radix, n - k) \o wordDigits(d.r, radix, k)
             ELSE <<>>

\* C1: a valid key of at most 32 bytes, encoded by ToWIF with either flag
\* and decoded by PrivateFromWIF, comes back without error as the same key
\* with the same flag.
C1_RoundTrip ==
    (op = "PrivateFromWIF" /\ source = "ToWIF" /\ Len(privKey) <= 32 /\ InKeyRange(privKey))
        => (err = "nil" /\ key = privKey /\ compressed = flag)

\* C2, as stated: every sequence of 99 characters in 1..6 gives, without
\* error, a key whose value is in 1..maxValueForKey.
C2_EveryDiceSequenceSucceeds ==
    (DiceCall /\ Over(sequence, DiceAlphabet)) => (err = "nil" /\ InKeyRange(key))

\* C2, amended: every sequence of 99 characters in 1..6 other than 99 ones
\* gives, without error, a key whose value is in 1..maxValueForKey; the
\* sequence of 99 ones (the number 0) fails with the out-of-range error and
\* gives no key.
C2_DiceSucceedsUnlessAllOnes ==
    (DiceCall /\ Over(sequence, DiceAlphabet))
        => IF Over(sequence, {"1"}) THEN err = "range" /\ key = Nil
                                    ELSE err = "nil" /\ InKeyRange(key)

C2_Witness ==
    /\ DiceCall /\ Over(sequence, DiceAlphabet) /\ ~Over(sequence, {"1"})
    /\ err = "nil" /\ Len(key) = 1

\* C3, as stated: a sequence of 256 characters 0 or 1 fails with the
\* out-of-range error exactly when its binary value is at least the curve
\* order (above maxValueForKey), and otherwise succeeds and returns a key.
C3_FailsIffAtLeastOrder ==
    (CoinCall /\ Over(sequence, CoinAlphabet))
        => /\ (err = "range") <=> Above(BitValues(sequence), BitValues(MaxValueBits))
           /\ ~Above(BitValues(sequence), BitValues(MaxValueBits))
                  => (err = "nil" /\ key # Nil)

\* C3, amended: a sequence of 256 characters 0 or 1 fails with the
\* out-of-range error exactly when its binary value is at least the curve
\* order or is zero, and otherwise succeeds and returns a key.
C3_FailsIffZeroOrAtLeastOrder ==
    (CoinCall /\ Over(sequence, CoinAlphabet))
        => LET out == \/ Above(BitValues(sequence), BitValues(MaxValueBits))
                      \/ Over(sequence, {"0"})
           IN  IF out THEN err = "range" /\ key = Nil
                      ELSE err = "nil" /\ key # Nil

C3_Witness ==
    /\ CoinCall /\ Over(sequence, CoinAlphabet)
    /\ Above(BitValues(sequence), BitValues(MaxValueBits))
    /\ \E i \in 1..Len(sequence) : sequence[i] = "0"
    /\ err = "range"

\* C4: PrivateFromWIF returns for every input string, a key or an error; it
\* never panics.
C4_NeverPanics == op = "PrivateFromWIF" => err # "panic"

\* C5: a string returned by ToWIF with one bit of its four checksum bytes
\* changed is rejected with the checksum error and no key; and whenever
\* PrivateFromWIF succeeds, the last four bytes of the decoded buffer are the
\* first four bytes of the double digest of the bytes before them.
C5_ChecksumGuards ==
    /\ (op = "PrivateFromWIF" /\ source = "Corrupt") => (err = "checksum" /\ key = Nil)
    /\ (op = "PrivateFromWIF" /\ err = "nil")
           => LET decoded == Decode(keyString)
                  n       == Len(decoded)
              IN  /\ n >= 4
                  /\ SubSeq(decoded, n - 3, n) = checksumOf(SubSeq(decoded, 1, n - 4))

C5_Witness == op = "PrivateFromWIF" /\ source = "Corrupt" /\ err = "checksum"

\* C6: a string whose decoded buffer starts with a byte other than 0x80 is
\* rejected with the prefix error, nil key and compressed false, whether its
\* checksum is right or wrong.
C6_PrefixFirst ==
    op = "PrivateFromWIF"
        => LET decoded == Decode(keyString)
           IN  (Len(decoded) > 0 /\ decoded[1] # 128)
                   => (err = "prefix" /\ key = Nil /\ compressed = FALSE)

C6_Witness ==
    /\ op = "PrivateFromWIF" /\ err = "prefix"
    /\ LET decoded == Decode(keyString)
           n       == Len(decoded)
       IN  /\ n > 4
           /\ SubSeq(decoded, n - 3, n) # checksumOf(SubSeq(decoded, 1, n - 4))

\* The 32-byte coordinates of the curve point of the scalar passed to Public
PointOf(k) ==
    LET v == SubSeq(k, leading(k, 0, 1) + 1, Len(k))
    IN  CurvePoints[CHOOSE i \in 1..Len(CurvePoints) : CurvePoints[i].k = v]

\* C7: Public(key, true) is 33 bytes, 0x02 (Y even) or 0x03 (Y odd) and then
\* X; Public(key, false) is 65 bytes, 0x04 and then X and Y; whatever the
\* size of the coordinates' values.
C7_PublicKeyLayout ==
    op = "Public"
        => LET p == PointOf(privKey)
           IN  IF flag
               THEN /\ Len(pubKey) = 33
                    /\ pubKey = <<2 + (p.Y[32] % 2)>> \o p.X
               ELSE /\ Len(pubKey) = 65
                    /\ pubKey = <<4>> \o p.X \o p.Y

\* C8: a sequence of the required length with a character outside its
\* alphabet (dice 1..6, coin flip 0 and 1), at any position, is rejected with
\* the parse error and no key.
C8_AlphabetEnforced ==
    (\/ DiceCall /\ ~Over(sequence, DiceAlphabet)
     \/ CoinCall /\ ~Over(sequence, CoinAlphabet))
        => (err = "parse" /\ key = Nil)

\* C9: a key returned without error by FromDiceSequence, FromCoinflipSequence
\* or PrivateFromWIF has at most 32 bytes and a value in 1..maxValueForKey.
C9_ReturnedKeysValid ==
    (op \in {"FromDiceSequence", "FromCoinflipSequence", "PrivateFromWIF"} /\ err = "nil")
        => (Len(key) <= 32 /\ InKeyRange(key))

\* The digits a sequence stands for: a dice symbol d is the digit d - 1, a
\* coin flip is its bit; a sign holds no digit
DigitsMeant(s) ==
    [i \in 1..Len(s) |->
        IF s[i] \in {"+", "-"} THEN 0
        ELSE IF op = "FromDiceSequence" THEN digitVal(s[i]) - 1
        ELSE digitVal(s[i])]

\* C10: the buffer a successful FromDiceSequence or FromCoinflipSequence
\* returns has 1 to 32 bytes, a non-zero first byte, and read back as a
\* big-endian number it is the number whose radix-6 (dice, each symbol d
\* taken as d - 1) or radix-2 (coin flip) digits are the sequence.
C10_MinimalEncoding ==
    (op \in {"FromDiceSequence", "FromCoinflipSequence"} /\ err = "nil")
        => /\ Len(key) >= 1 /\ Len(key) <= 32
           /\ key[1] # 0
           /\ LET radix == IF op = "FromDiceSequence" THEN 6 ELSE 2
              IN  radixDigits(natSetBytes(key), radix, Len(sequence) + 1)
                      = <<0>> \o DigitsMeant(sequence)

C10_Witness ==
    /\ op \in {"FromDiceSequence", "FromCoinflipSequence"} /\ err = "nil"
    /\ Len(key) < 32

====
